---- MODULE Spec2Model ----
(***************************************************************************)
(* Shipment record of src/models/Shipping.js: one in-memory Mongoose       *)
(* document (doc), its persisted copy (db), the wall clock (now, counted   *)
(* in days) and the outcome of the last call (last).                       *)
(***************************************************************************)
EXTENDS Integers, Sequences, FiniteSets, TLC

VARIABLES doc, db, now, last

vars == <<doc, db, now, last>>

\* ------------------------------------------------------------------ bounds
\* Days the clock runs through.
MaxDay == 2
\* Tracking events of a shipment under Spec (every input is tried).
MaxEvents == 2
\* Tracking events of a shipment under SpecLong (fewer inputs, longer runs).
MaxEventsLong == 3
\* Ship dates and delivery time-frames tried under SpecDerived.
MaxShipDay == 8
MaxTimeframe == 6

\* A Date field that is not set (undefined / null); real dates are >= 1.
NoDate == 0
\* A String field that is not set.
Undefined == "undefined"

\* ------------------------------------------------------- schema enumerations
trackingEventStatusEnum ==
  {"label_created", "picked_up", "in_transit", "out_for_delivery",
   "delivered", "delivery_attempted", "exception", "returned",
   "lost", "damaged"}

shippingStatusEnum ==
  {"Pending", "Processing", "Ready to Ship", "Shipped", "In Transit",
   "Out for Delivery", "Delivered", "Delivery Failed", "Returned", "Lost",
   "Damaged", "Cancelled"}

returnReasonEnum ==
  {"delivery_failed", "refused_by_recipient", "incorrect_address",
   "damaged_package", "customer_request", "other"}

carrierEnum ==
  {"La Poste", "Chronopost", "DHL", "UPS", "FedEx", "TNT", "Mondial Relay",
   "Autre"}

\* --------------------------------------------------------------- strings
\* The characters of every status string the model passes to updateStatus
\* and of every token toLowerCase().replace(/\s+/g, '_') makes of them.
Chars ==
     "Pending" :> <<"P", "e", "n", "d", "i", "n", "g">>
  @@ "Processing" :> <<"P", "r", "o", "c", "e", "s", "s", "i", "n", "g">>
  @@ "Ready to Ship" :> <<"R", "e", "a", "d", "y", " ", "t", "o", " ", "S", "h", "i", "p">>
  @@ "Shipped" :> <<"S", "h", "i", "p", "p", "e", "d">>
  @@ "In Transit" :> <<"I", "n", " ", "T", "r", "a", "n", "s", "i", "t">>
  @@ "Out for Delivery" :> <<"O", "u", "t", " ", "f", "o", "r", " ", "D", "e", "l", "i", "v", "e", "r", "y">>
  @@ "Delivered" :> <<"D", "e", "l", "i", "v", "e", "r", "e", "d">>
  @@ "Delivery Failed" :> <<"D", "e", "l", "i", "v", "e", "r", "y", " ", "F", "a", "i", "l", "e", "d">>
  @@ "Returned" :> <<"R", "e", "t", "u", "r", "n", "e", "d">>
  @@ "Lost" :> <<"L", "o", "s", "t">>
  @@ "Damaged" :> <<"D", "a", "m", "a", "g", "e", "d">>
  @@ "Cancelled" :> <<"C", "a", "n", "c", "e", "l", "l", "e", "d">>
  @@ "Picked Up" :> <<"P", "i", "c", "k", "e", "d", " ", "U", "p">>
  @@ "Bogus" :> <<"B", "o", "g", "u", "s">>
  @@ "pending" :> <<"p", "e", "n", "d", "i", "n", "g">>
  @@ "processing" :> <<"p", "r", "o", "c", "e", "s", "s", "i", "n", "g">>
  @@ "ready_to_ship" :> <<"r", "e", "a", "d", "y", "_", "t", "o", "_", "s", "h", "i", "p">>
  @@ "shipped" :> <<"s", "h", "i", "p", "p", "e", "d">>
  @@ "in_transit" :> <<"i", "n", "_", "t", "r", "a", "n", "s", "i", "t">>
  @@ "out_for_delivery" :> <<"o", "u", "t", "_", "f", "o", "r", "_", "d", "e", "l", "i", "v", "e", "r", "y">>
  @@ "delivered" :> <<"d", "e", "l", "i", "v", "e", "r", "e", "d">>
  @@ "delivery_failed" :> <<"d", "e", "l", "i", "v", "e", "r", "y", "_", "f", "a", "i", "l", "e", "d">>
  @@ "returned" :> <<"r", "e", "t", "u", "r", "n", "e", "d">>
  @@ "lost" :> <<"l", "o", "s", "t">>
  @@ "damaged" :> <<"d", "a", "m", "a", "g", "e", "d">>
  @@ "cancelled" :> <<"c", "a", "n", "c", "e", "l", "l", "e", "d">>
  @@ "picked_up" :> <<"p", "i", "c", "k", "e", "d", "_", "u", "p">>
  @@ "bogus" :> <<"b", "o", "g", "u", "s">>

UpperCase ==
  <<"A", "B", "C", "D", "E", "F", "G", "H", "I", "J", "K", "L", "M",
    "N", "O", "P", "Q", "R", "S", "T", "U", "V", "W", "X", "Y", "Z">>

LowerCase ==
  <<"a", "b", "c", "d", "e", "f", "g", "h", "i", "j", "k", "l", "m",
    "n", "o", "p", "q", "r", "s", "t", "u", "v", "w", "x", "y", "z">>

toLowerCaseChar(c) ==
  IF \E i \in DOMAIN UpperCase : UpperCase[i] = c
  THEN LowerCase[CHOOSE i \in DOMAIN UpperCase : UpperCase[i] = c]
  ELSE c

toLowerCase(cs) == [i \in DOMAIN cs |-> toLowerCaseChar(cs[i])]

IsSpace(c) == c = " "

RECURSIVE SkipSpaces(_)
SkipSpaces(cs) ==
  IF cs # <<>> /\ IsSpace(Head(cs)) THEN SkipSpaces(Tail(cs)) ELSE cs

\* String.prototype.replace(/\s+/g, '_'): every run of white space becomes
\* one underscore.
RECURSIVE replaceSpaces(_)
replaceSpaces(cs) ==
  IF cs = <<>> THEN <<>>
  ELSE IF IsSpace(Head(cs)) THEN <<"_">> \o replaceSpaces(SkipSpaces(cs))
  ELSE <<Head(cs)>> \o replaceSpaces(Tail(cs))

Str(cs) == CHOOSE s \in DOMAIN Chars : Chars[s] = cs

\* s.toLowerCase().replace(/\s+/g, '_') of every string s of Chars.
eventTokens ==
  [s \in DOMAIN Chars |-> Str(replaceSpaces(toLowerCase(Chars[s])))]

\* newStatus.toLowerCase().replace(/\s+/g, '_')
eventToken(newStatus) == eventTokens[newStatus]

\* ------------------------------------------------------------ call inputs
\* Statuses passed to updateStatus: the whole enumeration and two values
\* outside it.
NewStatusInputs == shippingStatusEnum \cup {"Picked Up", "Bogus"}

\* <<newStatus, description>> of updateStatus (a string is the sequence of
\* its pieces, '' is <<>>); the last one leaves description to its default.
UpdateStatusInputs ==
  {<<s, <<"note">>>> : s \in NewStatusInputs} \cup {<<"Delivered", <<>>>>}

\* <<status, description, timestamp>> of addTrackingEvent (NoDate: the
\* timestamp is omitted).
AddTrackingEventInputs ==
  {<<s, <<"note">>, NoDate>> : s \in trackingEventStatusEnum}
    \cup {<<"in_transit", <<"note">>, 1>>}

ReasonInputs == {"other", "bogus_reason"}

ReceivedByInputs == {"", "Alice"}

\* The inputs of the longer runs: the statuses the pre-save hook looks at
\* and one that leaves them.
UpdateStatusInputsLong ==
  {<<s, <<"note">>>> : s \in {"Shipped", "In Transit", "Delivered"}}

AddTrackingEventInputsLong ==
  {<<s, <<"note">>, NoDate>> : s \in {"picked_up", "in_transit", "delivered"}}

ReasonInputsLong == {"other"}

ReceivedByInputsLong == {""}

\* --------------------------------------------------------------- document
\* getDay() of a day number: day 0 is 1970-01-01, a Thursday; 0 is Sunday.
getDay(d) == (d + 4) % 7

\* A new document with the schema's defaults.
NewShipment(carrier, saturdayDelivery, deliveryTimeframe, shippedAt) ==
  [ shippingStatus        |-> "Pending",
    statusModified        |-> FALSE,
    carrier               |-> carrier,
    trackingNumber        |-> "TN1",
    trackingUrl           |-> <<>>,
    saturdayDelivery      |-> saturdayDelivery,
    shippedAt             |-> shippedAt,
    estimatedDeliveryDate |-> NoDate,
    actualDeliveryDate    |-> NoDate,
    deliveryTimeframe     |-> deliveryTimeframe,
    trackingEvents        |-> <<>>,
    lastTrackingUpdate    |-> NoDate,
    delivery              |-> [receivedBy |-> Undefined],
    return                |-> [isReturned |-> FALSE, reason |-> Undefined,
                               returnedAt |-> NoDate,
                               returnTrackingNumber |-> Undefined] ]

\* Mutant: an assignment that refuses to leave a terminal status.
setShippingStatusGuarded(d, v) ==
  IF d.shippingStatus \in {"Delivered", "Returned", "Lost", "Damaged",
                           "Cancelled"}
  THEN d
  ELSE [d EXCEPT !.shippingStatus = v,
                 !.statusModified = @ \/ (v # d.shippingStatus)]

\* Assignment to this.shippingStatus: Mongoose marks the path modified when
\* the value differs from the current one; the mark stays until a save
\* succeeds.
setShippingStatus(d, v) ==
  [d EXCEPT !.shippingStatus = v,
            !.statusModified = @ \/ (v # d.shippingStatus)]

\* isModified('shippingStatus')
isModified(d) == d.statusModified

\* Validation of one tracking event against trackingEventSchema.
validEvent(e) ==
  /\ e.status \in trackingEventStatusEnum
  /\ e.description # <<>>
  /\ e.timestamp # NoDate

\* Validation of the document before a save (the enum and required rules of
\* the schema that the modelled operations can break).
validate(d) ==
  /\ d.shippingStatus \in shippingStatusEnum
  /\ \A i \in DOMAIN d.trackingEvents : validEvent(d.trackingEvents[i])
  /\ d.return.reason \in returnReasonEnum \cup {Undefined}
  /\ d.carrier \in carrierEnum

\* Mutant: the hook without its !this.shippedAt test.
preSaveShippedAtAlways(d, t) ==
  LET d1 == IF isModified(d) /\ d.shippingStatus = "Shipped"
            THEN [d EXCEPT !.shippedAt = t] ELSE d
      d2 == IF isModified(d1) /\ d1.shippingStatus = "Delivered"
               /\ d1.actualDeliveryDate = NoDate
            THEN [d1 EXCEPT !.actualDeliveryDate = t] ELSE d1
  IN  d2

\* shippingSchema.pre('save')
preSave(d, t) ==
  LET d1 == IF isModified(d) /\ d.shippingStatus = "Shipped"
               /\ d.shippedAt = NoDate
            THEN [d EXCEPT !.shippedAt = t] ELSE d
      d2 == IF isModified(d1) /\ d1.shippingStatus = "Delivered"
               /\ d1.actualDeliveryDate = NoDate
            THEN [d1 EXCEPT !.actualDeliveryDate = t] ELSE d1
  IN  d2

\* this.save(): validation runs first and rejects with a ValidationError;
\* otherwise the pre-save hook runs, the document is written and its
\* modification marks are cleared.
saved(d, t) == [preSave(d, t) EXCEPT !.statusModified = FALSE]

\* Mutant: the table with a wrong value for in_transit.
statusMappingWrongTransit ==
     "delivered" :> "Delivered"
  @@ "out_for_delivery" :> "Out for Delivery"
  @@ "in_transit" :> "Shipped"
  @@ "picked_up" :> "Shipped"
  @@ "exception" :> "Delivery Failed"
  @@ "returned" :> "Returned"
  @@ "lost" :> "Lost"
  @@ "damaged" :> "Damaged"

statusMapping ==
     "delivered" :> "Delivered"
  @@ "out_for_delivery" :> "Out for Delivery"
  @@ "in_transit" :> "In Transit"
  @@ "picked_up" :> "Shipped"
  @@ "exception" :> "Delivery Failed"
  @@ "returned" :> "Returned"
  @@ "lost" :> "Lost"
  @@ "damaged" :> "Damaged"

\* Mutant: the event is appended and the mapping is not applied.
addTrackingEventNoMapping(d, status, description, timestamp, t) ==
  [d EXCEPT !.trackingEvents =
              Append(@, [ status      |-> status,
                          description |-> description,
                          timestamp   |-> IF timestamp # NoDate THEN timestamp
                                          ELSE t,
                          source      |-> "manual" ]),
            !.lastTrackingUpdate = t]

\* addTrackingEvent(status, description, location = {}, timestamp = null)
addTrackingEvent(d, status, description, timestamp, t) ==
  LET event == [ status      |-> status,
                 description |-> description,
                 timestamp   |-> IF timestamp # NoDate THEN timestamp ELSE t,
                 source      |-> "manual" ]
      d1 == [d EXCEPT !.trackingEvents = Append(@, event),
                      !.lastTrackingUpdate = t]
  IN  IF status \in DOMAIN statusMapping
      THEN setShippingStatus(d1, statusMapping[status])
      ELSE d1

\* updateStatus(newStatus, description = '', location = {}), up to the save
updateStatus(d, newStatus, description, t) ==
  addTrackingEvent(setShippingStatus(d, newStatus), eventToken(newStatus),
                   description, NoDate, t)

\* Mutant: an existing actualDeliveryDate is kept.
markAsDeliveredKeepsDate(d, receivedBy, t) ==
  LET d1 == setShippingStatus(d, "Delivered")
      d2 == [d1 EXCEPT !.actualDeliveryDate = IF @ = NoDate THEN t ELSE @,
                       !.delivery = [receivedBy |-> receivedBy]]
  IN  addTrackingEvent(d2, "delivered",
                       IF receivedBy # "" THEN <<"Colis livre", " a ", receivedBy>>
                       ELSE <<"Colis livre">>,
                       t, t)

\* markAsDelivered(receivedBy = '', ...), up to the save
markAsDelivered(d, receivedBy, t) ==
  LET d1 == setShippingStatus(d, "Delivered")
      d2 == [d1 EXCEPT !.actualDeliveryDate = t,
                       !.delivery = [receivedBy |-> receivedBy]]
  IN  addTrackingEvent(d2, "delivered",
                       IF receivedBy # "" THEN <<"Colis livre", " a ", receivedBy>>
                       ELSE <<"Colis livre">>,
                       t, t)

\* processReturn(reason, returnTrackingNumber = ''), up to the save
processReturn(d, reason, returnTrackingNumber, t) ==
  LET d1 == [d EXCEPT !.return = [isReturned |-> TRUE, reason |-> reason,
                                  returnedAt |-> t,
                                  returnTrackingNumber |-> returnTrackingNumber]]
      d2 == setShippingStatus(d1, "Returned")
  IN  addTrackingEvent(d2, "returned",
                       <<"Colis retourne - Raison: ", reason>>, t, t)

trackingUrls ==
     "La Poste" :> "https://www.laposte.fr/outils/suivre-vos-envois?code="
  @@ "Chronopost" :> "https://www.chronopost.fr/tracking-colis?listeNumerosLT="
  @@ "DHL" :> "https://www.dhl.com/fr-fr/home/tracking/tracking-express.html?submit=1&tracking-id="
  @@ "UPS" :> "https://www.ups.com/track?loc=fr_FR&tracknum="
  @@ "FedEx" :> "https://www.fedex.com/apps/fedextrack/?tracknumbers="
  @@ "TNT" :> "https://www.tnt.com/express/fr_fr/site/shipping-tools/tracking.html?searchType=con&cons="

generateTrackingUrl(d) ==
  IF d.carrier \in DOMAIN trackingUrls
  THEN <<trackingUrls[d.carrier], d.trackingNumber>>
  ELSE <<>>

\* Mutant: the loop with <= for <.
RECURSIVE walkBusinessDaysOffByOne(_, _, _, _)
walkBusinessDaysOffByOne(deliveryDate, daysAdded, maxDays, saturdayDelivery) ==
  IF daysAdded <= maxDays
  THEN LET next == deliveryDate + 1
           dayOfWeek == getDay(next)
       IN  walkBusinessDaysOffByOne(next,
             IF dayOfWeek # 0 /\ (dayOfWeek # 6 \/ saturdayDelivery)
             THEN daysAdded + 1 ELSE daysAdded,
             maxDays, saturdayDelivery)
  ELSE deliveryDate

\* The while loop of calculateEstimatedDelivery.
RECURSIVE walkBusinessDays(_, _, _, _)
walkBusinessDays(deliveryDate, daysAdded, maxDays, saturdayDelivery) ==
  IF daysAdded < maxDays
  THEN LET next == deliveryDate + 1
           dayOfWeek == getDay(next)
       IN  walkBusinessDays(next,
             IF dayOfWeek # 0 /\ (dayOfWeek # 6 \/ saturdayDelivery)
             THEN daysAdded + 1 ELSE daysAdded,
             maxDays, saturdayDelivery)
  ELSE deliveryDate

\* this.deliveryTimeframe.max || 7  (max is NoDate-like 0 when unset)
maxDaysOf(d) == IF d.deliveryTimeframe.max # 0 THEN d.deliveryTimeframe.max ELSE 7

\* calculateEstimatedDelivery(): NoDate stands for the null it returns.
calculateEstimatedDelivery(d) ==
  IF d.shippedAt = NoDate \/ ~d.deliveryTimeframe.present
  THEN NoDate
  ELSE walkBusinessDays(d.shippedAt, 0, maxDaysOf(d), d.saturdayDelivery)

\* virtual isDelivered
isDelivered(d) == d.shippingStatus = "Delivered"

\* isLate()
isLate(d, t) ==
  IF d.estimatedDeliveryDate = NoDate \/ isDelivered(d) THEN FALSE
  ELSE t > d.estimatedDeliveryDate

\* Array.prototype.sort((a, b) => b.timestamp - a.timestamp): stable, in
\* place, descending by timestamp.
insertDesc(sorted, e) ==
  LET k == Cardinality({i \in DOMAIN sorted :
                          sorted[i].timestamp >= e.timestamp})
  IN  SubSeq(sorted, 1, k) \o <<e>> \o SubSeq(sorted, k + 1, Len(sorted))

RECURSIVE sortByTimestampDesc(_)
sortByTimestampDesc(evs) ==
  IF evs = <<>> THEN <<>>
  ELSE insertDesc(sortByTimestampDesc(SubSeq(evs, 1, Len(evs) - 1)),
                  evs[Len(evs)])

\* ----------------------------------------------------------------- actions
Called(op, arg, ok, result) ==
  last' = [op |-> op, arg |-> arg, ok |-> ok, result |-> result,
           prevStatus |-> doc.shippingStatus]

\* A call that ends with return this.save(): validation runs first and
\* rejects with a ValidationError, leaving the changes in memory; otherwise
\* the pre-save hook runs and the document is written.
SaveAs(d, op, arg) ==
  IF validate(d)
  THEN /\ doc' = saved(d, now)
       /\ db' = saved(d, now)
       /\ Called(op, arg, TRUE, <<>>)
  ELSE /\ doc' = d
       /\ db' = db
       /\ Called(op, arg, FALSE, <<"ValidationError">>)

UpdateStatusOn(inputs, cap) ==
  /\ Len(doc.trackingEvents) < cap
  /\ \E inp \in inputs :
       SaveAs(updateStatus(doc, inp[1], inp[2], now), "updateStatus", inp)
  /\ UNCHANGED now

\* Mutant: addTrackingEvent saves the record itself.
AddTrackingEventOnSaving(inputs, cap) ==
  /\ Len(doc.trackingEvents) < cap
  /\ \E inp \in inputs :
       SaveAs(addTrackingEvent(doc, inp[1], inp[2], inp[3], now),
              "addTrackingEvent", inp)
  /\ UNCHANGED now

AddTrackingEventOn(inputs, cap) ==
  /\ Len(doc.trackingEvents) < cap
  /\ \E inp \in inputs :
       /\ doc' = addTrackingEvent(doc, inp[1], inp[2], inp[3], now)
       /\ Called("addTrackingEvent", inp, TRUE, <<>>)
  /\ UNCHANGED <<db, now>>

MarkAsDeliveredOn(inputs, cap) ==
  /\ Len(doc.trackingEvents) < cap
  /\ \E receivedBy \in inputs :
       SaveAs(markAsDelivered(doc, receivedBy, now),
              "markAsDelivered", <<receivedBy>>)
  /\ UNCHANGED now

ProcessReturnOn(inputs, cap) ==
  /\ Len(doc.trackingEvents) < cap
  /\ \E reason \in inputs :
       SaveAs(processReturn(doc, reason, "RT123", now),
              "processReturn", <<reason>>)
  /\ UNCHANGED now

UpdateStatus == UpdateStatusOn(UpdateStatusInputs, MaxEvents)

AddTrackingEvent == AddTrackingEventOn(AddTrackingEventInputs, MaxEvents)

MarkAsDelivered == MarkAsDeliveredOn(ReceivedByInputs, MaxEvents)

ProcessReturn == ProcessReturnOn(ReasonInputs, MaxEvents)

UpdateStatusLong == UpdateStatusOn(UpdateStatusInputsLong, MaxEventsLong)

AddTrackingEventLong ==
  AddTrackingEventOn(AddTrackingEventInputsLong, MaxEventsLong)

MarkAsDeliveredLong == MarkAsDeliveredOn(ReceivedByInputsLong, MaxEventsLong)

ProcessReturnLong == ProcessReturnOn(ReasonInputsLong, MaxEventsLong)

\* The caller's own doc.save().
Save ==
  /\ SaveAs(doc, "save", <<>>)
  /\ UNCHANGED now

GetLatestTrackingEvent ==
  /\ IF Len(doc.trackingEvents) = 0
     THEN /\ doc' = doc
          /\ Called("getLatestTrackingEvent", <<>>, TRUE, <<>>)
     ELSE LET sorted == sortByTimestampDesc(doc.trackingEvents)
          IN  /\ doc' = [doc EXCEPT !.trackingEvents = sorted]
              /\ Called("getLatestTrackingEvent", <<>>, TRUE, <<sorted[1]>>)
  /\ UNCHANGED <<db, now>>

IsLate ==
  /\ Called("isLate", <<>>, TRUE, <<isLate(doc, now)>>)
  /\ UNCHANGED <<doc, db, now>>

CalculateEstimatedDelivery ==
  /\ LET r == calculateEstimatedDelivery(doc)
     IN  /\ doc' = IF r = NoDate THEN doc
                   ELSE [doc EXCEPT !.estimatedDeliveryDate = r]
         /\ Called("calculateEstimatedDelivery", <<>>, TRUE, <<r>>)
  /\ UNCHANGED <<db, now>>

GenerateTrackingUrl ==
  /\ doc' = [doc EXCEPT !.trackingUrl = generateTrackingUrl(doc)]
  /\ Called("generateTrackingUrl", <<>>, TRUE, generateTrackingUrl(doc))
  /\ UNCHANGED <<db, now>>

\* Time passes between calls.
Tick ==
  /\ now < MaxDay
  /\ now' = now + 1
  /\ Called("tick", <<>>, TRUE, <<>>)
  /\ UNCHANGED <<doc, db>>

NoCall ==
  [op |-> "new", arg |-> <<>>, ok |-> TRUE, result |-> <<>>,
   prevStatus |-> "Pending"]

\* A shipment created with the schema's defaults and saved.
Init ==
  /\ doc = NewShipment("La Poste", FALSE, [present |-> TRUE, max |-> 0], NoDate)
  /\ db = doc
  /\ now = 1
  /\ last = NoCall

\* Every input, short histories.
Next ==
  \/ UpdateStatus
  \/ AddTrackingEvent
  \/ MarkAsDelivered
  \/ ProcessReturn
  \/ Save
  \/ GetLatestTrackingEvent
  \/ Tick

Spec == Init /\ [][Next]_vars

\* The statuses the pre-save hook looks at, longer histories.
NextLong ==
  \/ UpdateStatusLong
  \/ AddTrackingEventLong
  \/ MarkAsDeliveredLong
  \/ ProcessReturnLong
  \/ Save
  \/ GetLatestTrackingEvent
  \/ Tick

SpecLong == Init /\ [][NextLong]_vars

\* Shipments as stored, with any carrier, ship date, Saturday flag and
\* delivery time-frame (max 0: no max set), for the derived-field methods.
InitDerived ==
  /\ \E carrier \in {"La Poste", "Autre"}, saturdayDelivery \in BOOLEAN,
        present \in BOOLEAN, max \in 0..MaxTimeframe,
        shippedAt \in 0..MaxShipDay :
       LET d == NewShipment(carrier, saturdayDelivery,
                            [present |-> present, max |-> max], shippedAt)
       IN  doc = IF shippedAt # NoDate
                 THEN [d EXCEPT !.shippingStatus = "Shipped"] ELSE d
  /\ db = doc
  /\ now \in 1..MaxDay
  /\ last = NoCall

NextDerived ==
  \/ CalculateEstimatedDelivery
  \/ IsLate
  \/ GenerateTrackingUrl
  \/ Tick

SpecDerived == InitDerived /\ [][NextDerived]_vars

\* ------------------------------------------------------------- properties
SavingOps == {"updateStatus", "markAsDelivered", "processReturn", "save"}

IsPrefix(a, b) == Len(a) <= Len(b) /\ SubSeq(b, 1, Len(a)) = a

\* The callers so far passed only allowed values: every event carries a
\* description and either an event status or the token of an allowed
\* shipping status, and the return reason is an allowed one.
CallerInputsAllowed(d) ==
  /\ d.return.reason \in returnReasonEnum \cup {Undefined}
  /\ \A i \in DOMAIN d.trackingEvents :
       /\ d.trackingEvents[i].description # <<>>
       /\ d.trackingEvents[i].status \in
            trackingEventStatusEnum
              \cup {eventToken(st) : st \in shippingStatusEnum}

\* C1: updateStatus(newStatus, description, location) with newStatus one of
\* the 12 allowed shipping statuses (and a description given) succeeds and
\* leaves the record persisted; the token derived from newStatus never makes
\* it fail.
C1_UpdateStatusAllowedPersists ==
  ( /\ last.op = "updateStatus"
    /\ last.arg[1] \in shippingStatusEnum
    /\ last.arg[2] # <<>>
    /\ CallerInputsAllowed(doc) )
  => (last.ok /\ db = doc)

\* C2: shippedAt changes only from unset, only in a save that succeeds with
\* the status changed to Shipped, to the time of that save; every such save
\* leaves it set; once set it never changes, whatever is called later.
C2_ShippedAtSetOnce ==
  [][ /\ (doc'.shippedAt # doc.shippedAt) =>
            /\ doc.shippedAt = NoDate
            /\ doc'.shippedAt = now
            /\ last'.op \in SavingOps /\ last'.ok
            /\ doc'.shippingStatus = "Shipped"
            /\ db.shippingStatus # "Shipped" /\ db'.shippingStatus = "Shipped"
      /\ ( /\ last'.op \in SavingOps /\ last'.ok
           /\ db.shippingStatus # "Shipped" /\ db'.shippingStatus = "Shipped" )
         => (doc'.shippedAt # NoDate /\ db'.shippedAt = doc'.shippedAt)
    ]_vars

\* C2 witness: a save of a status changed back into Shipped, on a later day
\* than the one shippedAt was set on.
C2_Witness ==
  /\ last.op = "save" /\ last.ok
  /\ doc.shippingStatus = "Shipped"
  /\ doc.shippedAt # NoDate /\ doc.shippedAt < now
  /\ \E i, j, k \in DOMAIN doc.trackingEvents :
       /\ doc.trackingEvents[i].status = "picked_up"
       /\ doc.trackingEvents[j].status = "in_transit"
       /\ doc.trackingEvents[k].status = "picked_up"
       /\ doc.trackingEvents[i].timestamp = doc.shippedAt
       /\ doc.trackingEvents[k].timestamp > doc.shippedAt

\* C3: markAsDelivered always leaves actualDeliveryDate at the current time;
\* any other call changes actualDeliveryDate only from unset, in a save that
\* succeeds with the status changed to Delivered.
C3_ActualDeliveryDate ==
  [][ /\ (last'.op = "markAsDelivered") => (doc'.actualDeliveryDate = now)
      /\ ( /\ last'.op # "markAsDelivered"
           /\ doc'.actualDeliveryDate # doc.actualDeliveryDate )
         => /\ doc.actualDeliveryDate = NoDate
            /\ doc'.actualDeliveryDate = now
            /\ last'.op \in SavingOps /\ last'.ok
            /\ doc'.shippingStatus = "Delivered"
            /\ db.shippingStatus # "Delivered"
      /\ ( /\ last'.op \in SavingOps /\ last'.ok
           /\ db.shippingStatus # "Delivered"
           /\ db'.shippingStatus = "Delivered" )
         => doc'.actualDeliveryDate # NoDate
    ]_vars

\* C3 witness: markAsDelivered called on a shipment that an earlier
\* markAsDelivered had given a delivery date on an earlier day.
C3_Witness ==
  /\ last.op = "markAsDelivered"
  /\ last.prevStatus # "Delivered"
  /\ doc.actualDeliveryDate = now
  /\ \E i \in DOMAIN doc.trackingEvents :
       /\ doc.trackingEvents[i].description = <<"Colis livre">>
       /\ doc.trackingEvents[i].timestamp < now

\* C4: the tracking events are append-only: in every step (taken from a
\* record that passes validation) the events that existed before are a
\* prefix of the events after.
C4_AppendOnly ==
  [][validate(doc) => IsPrefix(doc.trackingEvents, doc'.trackingEvents)]_vars

\* The table of claim C5.
C5_Expected(status, previous) ==
  CASE status = "delivered" -> "Delivered"
    [] status = "out_for_delivery" -> "Out for Delivery"
    [] status = "in_transit" -> "In Transit"
    [] status = "picked_up" -> "Shipped"
    [] status = "exception" -> "Delivery Failed"
    [] status = "returned" -> "Returned"
    [] status = "lost" -> "Lost"
    [] status = "damaged" -> "Damaged"
    [] OTHER -> previous

\* C5: after addTrackingEvent(status, ...) the overall status is the mapped
\* value for the eight mapped event statuses and is unchanged for any other.
C5_EventStatusMapping ==
  last.op = "addTrackingEvent"
    => doc.shippingStatus = C5_Expected(last.arg[1], last.prevStatus)

\* C5 witness: a 'delivered' event on a new shipment, updateStatus never
\* called.
C5_Witness ==
  /\ last.op = "addTrackingEvent" /\ last.arg[1] = "delivered"
  /\ last.prevStatus = "Pending"
  /\ doc.shippingStatus = "Delivered"
  /\ Len(doc.trackingEvents) = 1

\* C6: addTrackingEvent leaves the persisted record as it was, with the new
\* event in memory only; updateStatus, markAsDelivered and processReturn,
\* when they return, have persisted the record with the new event.
C6_PersistenceAsymmetry ==
  [][ /\ (last'.op = "addTrackingEvent") =>
            /\ db' = db
            /\ Len(doc'.trackingEvents) = Len(doc.trackingEvents) + 1
            /\ doc'.trackingEvents # db'.trackingEvents
      /\ (last'.op \in {"updateStatus", "markAsDelivered", "processReturn"}
            /\ last'.ok)
         => /\ db' = doc'
            /\ Len(db'.trackingEvents) = Len(doc.trackingEvents) + 1
    ]_vars

\* C6 witness: an event added in memory to a shipment whose persisted record
\* has none, after which updateStatus has persisted both.
C6_Witness ==
  /\ last.op = "updateStatus" /\ last.ok
  /\ Len(db.trackingEvents) = 2
  /\ db.trackingEvents[1].status = "label_created"

BusinessDays(from, to, saturdayDelivery) ==
  Cardinality({x \in from..to :
                 getDay(x) # 0 /\ (getDay(x) # 6 \/ saturdayDelivery)})

\* C7: with a ship date and a time-frame set, calculateEstimatedDelivery
\* returns, and stores in estimatedDeliveryDate, the first date after the
\* ship date by which max (7 when max is unset or 0) business days have
\* been counted; from a Monday with max 5 and no Saturday delivery that is
\* 7 days later.
C7_EstimatedDelivery ==
  ( /\ last.op = "calculateEstimatedDelivery"
    /\ doc.shippedAt # NoDate
    /\ doc.deliveryTimeframe.present )
  => LET r == last.result[1]
         m == IF doc.deliveryTimeframe.max = 0 THEN 7
              ELSE doc.deliveryTimeframe.max
         s == doc.saturdayDelivery
     IN  /\ r = doc.estimatedDeliveryDate
         /\ r > doc.shippedAt
         /\ BusinessDays(doc.shippedAt + 1, r, s) = m
         /\ \A e \in (doc.shippedAt + 1)..(r - 1) :
              BusinessDays(doc.shippedAt + 1, e, s) < m
         /\ (getDay(doc.shippedAt) = 1 /\ m = 5 /\ ~s)
              => r = doc.shippedAt + 7

\* C7 witness: the Monday case of the claim.
C7_Witness ==
  /\ last.op = "calculateEstimatedDelivery"
  /\ getDay(doc.shippedAt) = 1
  /\ doc.deliveryTimeframe.present /\ doc.deliveryTimeframe.max = 5
  /\ ~doc.saturdayDelivery
  /\ last.result = <<doc.shippedAt + 7>>

\* C8: processReturn(reason, returnTrackingNumber) with an allowed reason
\* sets return.isReturned, sets the status to Returned, appends exactly one
\* 'returned' event and persists; with another reason it fails.
C8_ProcessReturn ==
  [][ (last'.op = "processReturn" /\ CallerInputsAllowed(doc)) =>
        IF last'.arg[1] \in returnReasonEnum
        THEN /\ doc'.return.isReturned
             /\ doc'.shippingStatus = "Returned"
             /\ Len(doc'.trackingEvents) = Len(doc.trackingEvents) + 1
             /\ IsPrefix(doc.trackingEvents, doc'.trackingEvents)
             /\ doc'.trackingEvents[Len(doc'.trackingEvents)].status = "returned"
             /\ last'.ok
             /\ db' = doc'
        ELSE ~last'.ok
    ]_vars

\* The status written by a call, whatever the status before it.
C9_Dictated(op, arg, status) ==
  CASE op = "updateStatus" /\ arg[1] \in shippingStatusEnum -> status = arg[1]
    [] op = "addTrackingEvent" /\ arg[1] \in DOMAIN statusMapping ->
         status = statusMapping[arg[1]]
    [] op = "markAsDelivered" -> status = "Delivered"
    [] op = "processReturn" -> status = "Returned"
    [] OTHER -> TRUE

C10_UpdateStatusKeepsNewStatus ==
  (last.op = "updateStatus" /\ last.arg[1] \in shippingStatusEnum)
    => doc.shippingStatus = last.arg[1]

\* C10 witness: a status whose token is in the mapping table.
C10_Witness ==
  /\ last.op = "updateStatus" /\ last.arg[1] = "Out for Delivery"
  /\ last.prevStatus = "Pending"
  /\ doc.shippingStatus = "Out for Delivery"
  /\ doc.trackingEvents[Len(doc.trackingEvents)].status = "out_for_delivery"

====
